---------------------------- MODULE Spec2Model ----------------------------
(***************************************************************************)
(* MotteSeed: torrent metadata decoding (src/src/core/torrent/torrent.rs)  *)
(* and the tracker announce layer (src/src/core/tracker/tracker.rs).       *)
(*                                                                         *)
(* Bytes are integers 0..255 and every byte string, String and URL is a    *)
(* sequence of them.  A Bencode value is a record tagged (t) with the      *)
(* variant of the enum of the bencode crate, its payload in a field of its *)
(* own; the map of a Dict is a function from key byte strings to values    *)
(* (the BTreeMap<ByteString, Bencode> of the crate).  A Result is          *)
(* Ok(v) = [ok |-> TRUE, val |-> v] or Err(kind, msg).                     *)
(***************************************************************************)
EXTENDS Integers, Sequences, FiniteSets, TLC

VARIABLES op, input, output, prev

\* The Tracker instance a caller holds, the call of Tracker::new or get_peers that is
\* running, the clock, and the requests on the wire.
VARIABLES instance, call, now, in_flight

\* The peer session a connection task owns.
VARIABLES session

\* The cell of the static PEER_ID, and for each thread where it stands in
\* get_peer_id and what its calls returned.
VARIABLES cell, tpc, got

callVars == <<op, input, output, prev>>
clientVars == <<instance, call, now, in_flight>>
peerVars == <<session>>
idVars == <<cell, tpc, got>>

vars == <<callVars, clientVars, peerVars, idVars>>

-----------------------------------------------------------------------------
(* Text helpers: byte literals are written as sequences of one-character   *)
(* strings and turned into their ASCII codes.                              *)

Printable ==
    << " ", "!", "<dquote>", "#", "$", "%", "&", "'", "(", ")", "*", "+", ",", "-", ".", "/",
       "0", "1", "2", "3", "4", "5", "6", "7", "8", "9", ":", ";", "<", "=", ">", "?",
       "@", "A", "B", "C", "D", "E", "F", "G", "H", "I", "J", "K", "L", "M", "N", "O",
       "P", "Q", "R", "S", "T", "U", "V", "W", "X", "Y", "Z", "[", "<bslash>", "]", "^", "_",
       "<btick>", "a", "b", "c", "d", "e", "f", "g", "h", "i", "j", "k", "l", "m", "n", "o",
       "p", "q", "r", "s", "t", "u", "v", "w", "x", "y", "z", "{", "|", "}", "~" >>

Ord(c) == 31 + (CHOOSE i \in 1..Len(Printable) : Printable[i] = c)

B(cs) == [i \in 1..Len(cs) |-> Ord(cs[i])]

Byte == 0..255

RECURSIVE Concat(_)
Concat(ss) == IF ss = << >> THEN << >> ELSE Head(ss) \o Concat(Tail(ss))

IsDigit(b) == b >= Ord("0") /\ b <= Ord("9")

\* Decimal digits of a natural number, as itoa and the bencode encoder write it.
RECURSIVE Dec(_)
Dec(n) == IF n < 10 THEN << Ord("0") + n >> ELSE Dec(n \div 10) \o << Ord("0") + (n % 10) >>

DecInt(n) == IF n < 0 THEN << Ord("-") >> \o Dec(0 - n) ELSE Dec(n)

\* Lexicographic order of byte strings (Ord of Vec<u8>), the key order of the BTreeMap.
RECURSIVE BytesLess(_, _)
BytesLess(a, b) ==
    IF b = << >> THEN FALSE
    ELSE IF a = << >> THEN TRUE
    ELSE IF Head(a) # Head(b) THEN Head(a) < Head(b)
    ELSE BytesLess(Tail(a), Tail(b))

\* The keys of a set in ascending order: the iteration order of a BTreeMap.
RECURSIVE SortedKeys(_)
SortedKeys(S) ==
    IF S = {} THEN << >>
    ELSE LET m == CHOOSE k \in S : \A o \in S \ {k} : BytesLess(k, o)
         IN  << m >> \o SortedKeys(S \ {m})

-----------------------------------------------------------------------------
(* Bencode values and results.                                             *)

Number(n) == [t |-> "Number", n |-> n]
ByteString(bs) == [t |-> "ByteString", bytes |-> bs]
List(xs) == [t |-> "List", items |-> xs]
Dict(m) == [t |-> "Dict", map |-> m]
Empty == [t |-> "Empty"]

Ok(x) == [ok |-> TRUE, val |-> x]
Err(kind, msg) == [ok |-> FALSE, err |-> [kind |-> kind, msg |-> msg]]

IsErr(r, kind) == ~r.ok /\ r.err.kind = kind


-----------------------------------------------------------------------------
(* Typed extraction: trait BencodeDecodable (torrent.rs 18-95).            *)

\* Variant of get_u64: a negative number is taken without its sign.
get_u64_of_magnitude(b) ==
    IF b.t = "Number"
    THEN Ok(IF b.n < 0 THEN 0 - b.n ELSE b.n)
    ELSE Err("WrongType", <<"Expected a Number">>)

\* get_u64: i64 -> u64 by try_into, which fails exactly on the negatives.
get_u64(b) ==
    IF b.t = "Number"
    THEN IF b.n >= 0 THEN Ok(b.n) ELSE Err("WrongType", <<"Expected a Number">>)
    ELSE Err("WrongType", <<"Expected a Number">>)

get_str(b) ==
    IF b.t = "ByteString" THEN Ok(b.bytes) ELSE Err("WrongType", <<"Expected a ByteString">>)

\* String::from_utf8_lossy.  The names of the model hold no well-formed
\* multi-byte sequence, so every byte above 127 becomes U+FFFD.
Utf8Lossy(bs) == [i \in 1..Len(bs) |-> IF bs[i] < 128 THEN bs[i] ELSE 65533]

\* `let x = r?; K(x)`: the error of r, or K of its value.
Try(r, K(_)) == IF r.ok THEN K(r.val) ELSE r

get_string(b) == Try(get_str(b), LAMBDA bytes : Ok(Utf8Lossy(bytes)))

get_struct(b) ==
    IF b.t = "Dict" THEN Ok(b.map) ELSE Err("WrongType", <<"Expected a dictionary">>)

get_struct_value_from_bytestring(key, dict_map) ==
    IF key \in DOMAIN dict_map
    THEN Ok(dict_map[key])
    ELSE Err("KeyNotFound", <<"Key '", key, "' not found">>)

get_struct_value(key, dict_map) == get_struct_value_from_bytestring(key, dict_map)

get_list(b) ==
    IF b.t = "List" THEN Ok(b.items) ELSE Err("WrongType", <<"Expected a list">>)

LENGTH_KEY == B(<<"l", "e", "n", "g", "t", "h">>)
PATH_KEY == B(<<"p", "a", "t", "h">>)

get_length(dict_map) == get_struct_value_from_bytestring(LENGTH_KEY, dict_map)
get_path(dict_map) == get_struct_value_from_bytestring(PATH_KEY, dict_map)

\* The string keys the decoders pass to get_struct_value.
K_announce == B(<<"a", "n", "n", "o", "u", "n", "c", "e">>)
K_info == B(<<"i", "n", "f", "o">>)
K_name == B(<<"n", "a", "m", "e">>)
K_piece_length == B(<<"p", "i", "e", "c", "e", " ", "l", "e", "n", "g", "t", "h">>)
K_pieces == B(<<"p", "i", "e", "c", "e", "s">>)
K_length == B(<<"l", "e", "n", "g", "t", "h">>)
K_files == B(<<"f", "i", "l", "e", "s">>)
K_interval == B(<<"i", "n", "t", "e", "r", "v", "a", "l">>)
K_peers == B(<<"p", "e", "e", "r", "s">>)

\* A loop `for x in xs { out.push(f(x)?) }` over the results rs of f: the
\* first error, or the values in the order of the list.
RECURSIVE FirstErr(_)
FirstErr(rs) ==
    IF rs = << >> THEN Ok(<< >>)
    ELSE IF ~Head(rs).ok THEN Head(rs) ELSE FirstErr(Tail(rs))

Collect(rs) == Try(FirstErr(rs), LAMBDA none : Ok([j \in 1..Len(rs) |-> rs[j].val]))

\* The same loop with a failing item skipped instead of returned.
CollectSkippingBad(rs) ==
    Collect(SelectSeq(rs, LAMBDA r : r.ok))

-----------------------------------------------------------------------------
(* FileEntry::decode (torrent.rs 199-216).                                 *)

PathOf(path_list) == Collect([j \in 1..Len(path_list) |-> get_str(path_list[j])])

FileEntryDecode(b) ==
    Try(get_struct(b), LAMBDA dict :
    Try(get_length(dict), LAMBDA lv :
    Try(get_u64(lv), LAMBDA length :
    Try(get_path(dict), LAMBDA pv :
    Try(get_list(pv), LAMBDA path_list :
    Try(PathOf(path_list), LAMBDA path :
    Ok([length |-> length, path |-> path])))))))

-----------------------------------------------------------------------------
(* Info::decode (torrent.rs 139-185).                                      *)

SingleFile(n) == [t |-> "SingleFile", length |-> n]
MultiFile(fs) == [t |-> "MultiFile", files |-> fs]

\* Variant of the loop below: a file entry that fails to decode is left out.
FilesSkippingBad(file_list) ==
    CollectSkippingBad([j \in 1..Len(file_list) |-> FileEntryDecode(file_list[j])])

\* The loop over file_list (torrent.rs 167-173).
FilesOf(file_list) ==
    Collect([j \in 1..Len(file_list) |-> FileEntryDecode(file_list[j])])

\* The arm `_ =>` of the match on get_struct_value("length", dict).
MultiFileArm(dict) ==
    Try(get_struct_value(K_files, dict), LAMBDA fv :
    Try(get_list(fv), LAMBDA file_list :
    Try(FilesOf(file_list), LAMBDA files :
    Ok(MultiFile(files)))))

\* The arm `Ok(b) =>` of the same match.
SingleFileArm(b) == Try(get_u64(b), LAMBDA length : Ok(SingleFile(length)))

\* Variant of FileDetailsOf: "files" is looked up first.
FileDetailsFilesFirst(dict) ==
    IF K_files \in DOMAIN dict
    THEN MultiFileArm(dict)
    ELSE Try(get_struct_value(K_length, dict), LAMBDA b : SingleFileArm(b))

\* Variant of FileDetailsOf: a "length" of the wrong type falls through to "files".
FileDetailsFallingThrough(dict) ==
    IF K_length \in DOMAIN dict /\ get_u64(dict[K_length]).ok
    THEN SingleFileArm(dict[K_length])
    ELSE MultiFileArm(dict)

\* match get_struct_value("length", dict) (torrent.rs 157-176).
FileDetailsOf(dict) ==
    IF get_struct_value(K_length, dict).ok
    THEN SingleFileArm(get_struct_value(K_length, dict).val)
    ELSE MultiFileArm(dict)

\* The check `raw_pieces.len() % 20 != 0` (torrent.rs 151-153).
PiecesCheck(raw_pieces) ==
    IF Len(raw_pieces) % 20 # 0
    THEN Err("LogicError", <<"Invalid pieces length">>)
    ELSE Ok(raw_pieces)

InfoDecode(b) ==
    Try(get_struct(b), LAMBDA dict :
    Try(get_struct_value(K_name, dict), LAMBDA nv :
    Try(get_string(nv), LAMBDA name :
    Try(get_struct_value(K_piece_length, dict), LAMBDA plv :
    Try(get_u64(plv), LAMBDA piece_length :
    Try(get_struct_value(K_pieces, dict), LAMBDA pv :
    Try(get_str(pv), LAMBDA raw :
    Try(PiecesCheck(raw), LAMBDA raw_pieces :
    Try(FileDetailsOf(dict), LAMBDA file_details :
    Ok([name |-> name,
        piece_length |-> piece_length,
        raw_pieces |-> raw_pieces,
        file_details |-> file_details]))))))))))

-----------------------------------------------------------------------------
(* The bencode crate: Bencode::to_bytes and from_buffer, and the sha1      *)
(* crate's digest, as torrent.rs calls them (116, 118-120, 248).           *)

\* Bencode::to_bytes: the canonical encoding; a Dict is written in the order
\* of its BTreeMap, ascending by key bytes.
RECURSIVE Encode(_)
Encode(b) ==
    CASE b.t = "Number" -> << Ord("i") >> \o DecInt(b.n) \o << Ord("e") >>
      [] b.t = "ByteString" -> Dec(Len(b.bytes)) \o << Ord(":") >> \o b.bytes
      [] b.t = "List" ->
            << Ord("l") >> \o Concat([j \in 1..Len(b.items) |-> Encode(b.items[j])]) \o << Ord("e") >>
      [] b.t = "Dict" ->
            LET ks == SortedKeys(DOMAIN b.map)
            IN  << Ord("d") >>
                \o Concat([j \in 1..Len(ks) |-> Encode(ByteString(ks[j])) \o Encode(b.map[ks[j]])])
                \o << Ord("e") >>
      [] OTHER -> << >>

\* Sha1::update + finalize.  A stand-in for SHA-1 that keeps what the model
\* reads of it: a deterministic function of the whole input to 20 bytes,
\* sensitive to the value and to the position of every byte.
RECURSIVE WeighedSum(_, _, _, _)
WeighedSum(bs, lo, hi, weighed) ==
    IF lo > hi THEN 0
    ELSE IF lo = hi THEN (IF weighed THEN lo ELSE 1) * (bs[lo] + 1)
    ELSE LET mid == (lo + hi) \div 2
         IN  WeighedSum(bs, lo, mid, weighed) + WeighedSum(bs, mid + 1, hi, weighed)

Sha1(bs) ==
    LET s0 == (1 + WeighedSum(bs, 1, Len(bs), FALSE)) % 65521
        s1 == WeighedSum(bs, 1, Len(bs), TRUE) % 65521
    IN  [j \in 1..20 |-> (s1 + j * s0 + (s1 \div 256) * j * j) % 256]

\* from_buffer: the crate's parser.  It reads the bencode grammar and inserts
\* each dictionary entry into a BTreeMap as it meets it: the order of the keys
\* in the buffer is not checked, and a repeated key keeps its last value.
\* A parse yields the value, the position after it and, for a dictionary,
\* the span [from, to) of each of its entries' values in the buffer.
Bad == [ok |-> FALSE]
Good(v, n, es) == [ok |-> TRUE, val |-> v, next |-> n, ents |-> es]

RECURSIVE ParseNat(_, _, _)
ParseNat(buf, i, acc) ==
    IF i <= Len(buf) /\ IsDigit(buf[i])
    THEN ParseNat(buf, i + 1, acc * 10 + (buf[i] - Ord("0")))
    ELSE [n |-> acc, next |-> i]

MapOf(es) ==
    [k \in {es[j].key : j \in 1..Len(es)} |->
        es[CHOOSE j \in 1..Len(es) :
              es[j].key = k /\ \A h \in (j + 1)..Len(es) : es[h].key # k].val]

RECURSIVE ParseValue(_, _)
RECURSIVE ParseItems(_, _, _)
RECURSIVE ParseEntries(_, _, _)

ParseValue(buf, i) ==
    IF i > Len(buf) THEN Bad ELSE
    LET c == buf[i] IN
    CASE c = Ord("i") ->
            LET neg == i + 1 <= Len(buf) /\ buf[i + 1] = Ord("-")
                s == IF neg THEN i + 2 ELSE i + 1
                d == ParseNat(buf, s, 0)
            IN  IF d.next = s \/ d.next > Len(buf) \/ buf[d.next] # Ord("e")
                THEN Bad
                ELSE Good(Number(IF neg THEN 0 - d.n ELSE d.n), d.next + 1, << >>)
      [] IsDigit(c) ->
            LET d == ParseNat(buf, i, 0)
            IN  IF d.next > Len(buf) \/ buf[d.next] # Ord(":") \/ d.next + d.n > Len(buf)
                THEN Bad
                ELSE Good(ByteString(SubSeq(buf, d.next + 1, d.next + d.n)),
                          d.next + d.n + 1, << >>)
      [] c = Ord("l") -> ParseItems(buf, i + 1, << >>)
      [] c = Ord("d") -> ParseEntries(buf, i + 1, << >>)
      [] OTHER -> Bad

ParseItems(buf, i, acc) ==
    IF i > Len(buf) THEN Bad
    ELSE IF buf[i] = Ord("e") THEN Good(List(acc), i + 1, << >>)
    ELSE LET r == ParseValue(buf, i)
         IN  IF ~r.ok THEN Bad ELSE ParseItems(buf, r.next, Append(acc, r.val))

ParseEntries(buf, i, acc) ==
    IF i > Len(buf) THEN Bad
    ELSE IF buf[i] = Ord("e") THEN Good(Dict(MapOf(acc)), i + 1, acc)
    ELSE IF ~IsDigit(buf[i]) THEN Bad
    ELSE LET k == ParseValue(buf, i) IN
         IF ~k.ok THEN Bad ELSE
         LET r == ParseValue(buf, k.next) IN
         IF ~r.ok THEN Bad ELSE
         ParseEntries(buf, r.next,
                      Append(acc, [key |-> k.val.bytes, val |-> r.val,
                                   from |-> k.next, to |-> r.next]))

from_buffer(buf) ==
    IF buf = << >> THEN Ok(Empty) ELSE
    LET r == ParseValue(buf, 1)
    IN  IF r.ok /\ r.next = Len(buf) + 1
        THEN Ok(r.val)
        ELSE Err("StreamingError", <<"syntax">>)

-----------------------------------------------------------------------------
(* Torrent::decode (torrent.rs 104-128) and TorrentFile::from_bytes        *)
(* (torrent.rs 243-265).                                                   *)

\* Variant of TorrentDecode: the digest is taken over the whole root value.
TorrentDecodeHashingRoot(b) ==
    Try(get_struct(b), LAMBDA dict :
    Try(get_struct_value(K_announce, dict), LAMBDA av :
    Try(get_str(av), LAMBDA announce :
    Try(get_struct_value(K_info, dict), LAMBDA info_dict :
    Try(InfoDecode(info_dict), LAMBDA info :
    Ok([announce |-> announce, info |-> info, info_hash |-> Sha1(Encode(b))]))))))

TorrentDecode(b) ==
    Try(get_struct(b), LAMBDA dict :
    Try(get_struct_value(K_announce, dict), LAMBDA av :
    Try(get_str(av), LAMBDA announce :
    Try(get_struct_value(K_info, dict), LAMBDA info_dict :
    Try(InfoDecode(info_dict), LAMBDA info :
    Ok([announce |-> announce, info |-> info, info_hash |-> Sha1(Encode(info_dict))]))))))

\* TorrentFile::from_bytes: parse the buffer, then Torrent::decode the root.
from_bytes(bytes) ==
    Try(from_buffer(bytes), LAMBDA bencode_holder :
    Try(TorrentDecode(bencode_holder), LAMBDA torrent :
    Ok([torrent |-> torrent])))

-----------------------------------------------------------------------------
(* Info::piece_hash (torrent.rs 218-232).  usize is the 64-bit word of the *)
(* x86_64 target, kept as four 16-bit limbs, least significant first, so   *)
(* that `index * 20` and `start + 20` wrap where the machine's do.  With   *)
(* overflow checks (the dev profile) an overflow panics; without (the      *)
(* release profile) it wraps.                                              *)

Limb == 256 * 256

U64(n) == << n % Limb, n \div Limb, 0, 0 >>

\* x * k and x + k modulo 2^64 for a small k, with the carry out of the top limb.
MulSmall(x, k) ==
    LET p1 == x[1] * k
        p2 == x[2] * k + p1 \div Limb
        p3 == x[3] * k + p2 \div Limb
        p4 == x[4] * k + p3 \div Limb
    IN  [val |-> << p1 % Limb, p2 % Limb, p3 % Limb, p4 % Limb >>,
         overflow |-> p4 \div Limb > 0]

AddSmall(x, k) ==
    LET p1 == x[1] + k
        p2 == x[2] + p1 \div Limb
        p3 == x[3] + p2 \div Limb
        p4 == x[4] + p3 \div Limb
    IN  [val |-> << p1 % Limb, p2 % Limb, p3 % Limb, p4 % Limb >>,
         overflow |-> p4 \div Limb > 0]

U64Leq(a, b) ==
    \/ a = b
    \/ \E i \in 1..4 : a[i] < b[i] /\ \A j \in (i + 1)..4 : a[j] = b[j]

\* The value of a word that fits the model's integers.
Small(x) == x[3] = 0 /\ x[4] = 0 /\ x[2] < Limb \div 2
WordNat(x) == x[1] + Limb * x[2]

Some(x) == [t |-> "Some", some |-> x]
None == [t |-> "None"]
Panic(msg) == [t |-> "Panic", msg |-> msg]

piece_hash(self, index, overflow_checks) ==
    LET m == MulSmall(index, 20) IN
    IF m.overflow /\ overflow_checks THEN Panic("attempt to multiply with overflow") ELSE
    LET start == m.val
        a == AddSmall(start, 20)
    IN
    IF a.overflow /\ overflow_checks THEN Panic("attempt to add with overflow") ELSE
    LET end == a.val IN
    IF U64Leq(end, U64(Len(self.raw_pieces)))
    THEN IF ~U64Leq(start, end)
         THEN Panic("slice index starts after its end")
         ELSE Some(SubSeq(self.raw_pieces, WordNat(start) + 1, WordNat(end)))
    ELSE None

-----------------------------------------------------------------------------
(* The inputs the calls are tried on.                                      *)

MaxPiecesLen == 41
MaxFiles == 2
MaxIndex == 3

Absent == [t |-> "Absent"]

\* The dictionary of the <<key, value>> pairs whose value is not Absent.
MkDict(pairs) ==
    LET present == {j \in 1..Len(pairs) : pairs[j][2].t # "Absent"}
    IN  Dict([k \in {pairs[j][1] : j \in present} |->
                 pairs[CHOOSE j \in present : pairs[j][1] = k][2]])

MkInfo(name, piece_length, pieces, length, files) ==
    MkDict(<< <<K_name, name>>, <<K_piece_length, piece_length>>, <<K_pieces, pieces>>,
              <<K_length, length>>, <<K_files, files>> >>)

MkEntry(length, path) == MkDict(<< <<LENGTH_KEY, length>>, <<PATH_KEY, path>> >>)

Pieces(n) == [i \in 1..n |-> i]

GoodName == ByteString(B(<<"f">>))
GoodPieceLength == Number(16384)

Entry1 == MkEntry(Number(1), List(<< ByteString(B(<<"a">>)) >>))
Entry2 == MkEntry(Number(2), List(<< ByteString(B(<<"d">>)), ByteString(B(<<"b">>)) >>))

FileItems ==
    { Entry1, Entry2,
      MkEntry(Absent, List(<< ByteString(B(<<"a">>)) >>)),
      MkEntry(Number(-1), List(<< ByteString(B(<<"a">>)) >>)),
      MkEntry(Number(1), ByteString(B(<<"a">>))),
      MkEntry(Number(1), List(<< ByteString(B(<<"a">>)), Number(7) >>)),
      Number(7) }

SeqsUpTo(S, n) == UNION {[1..k -> S] : k \in 0..n}

NameOpts == {Absent, GoodName, Number(1)}
PieceLengthOpts == {Absent, Number(0), GoodPieceLength, Number(-1), ByteString(B(<<"1">>))}
PiecesOpts == {Absent, Number(20)} \cup {ByteString(Pieces(n)) : n \in {0, 20, 39}}
LengthOpts == {Absent, Number(0), Number(100), Number(-1), ByteString(B(<<"5">>))}
FilesOpts == {Absent, List(<< >>), List(<<Entry2, Entry1>>), List(<<Entry1, Number(7)>>), Number(3)}

InfoInputs ==
    {MkInfo(n, pl, p, l, f) :
        n \in NameOpts, pl \in PieceLengthOpts, p \in PiecesOpts, l \in LengthOpts, f \in FilesOpts}
    \cup {MkInfo(GoodName, GoodPieceLength, ByteString(Pieces(n)), Number(100), Absent) :
            n \in 0..MaxPiecesLen}
    \cup {MkInfo(GoodName, GoodPieceLength, ByteString(Pieces(20)), Absent, List(fs)) :
            fs \in SeqsUpTo(FileItems, MaxFiles)}
    \cup {Number(1), Empty}

AnnounceA == ByteString(B(<<"h", "t", "t", "p", ":", "/", "/", "t", "/", "a">>))
AnnounceB == ByteString(B(<<"h", "t", "t", "p", ":", "/", "/", "t", "/", "b">>))

SingleInfo(length) ==
    MkInfo(GoodName, GoodPieceLength, ByteString(Pieces(20)), Number(length), Absent)

RootInputs ==
    {MkDict(<< <<K_announce, a>>, <<K_info, i>> >>) :
        a \in {Absent, AnnounceA, AnnounceB, Number(1)},
        i \in {Absent, Number(1), SingleInfo(100), SingleInfo(101),
               MkInfo(GoodName, GoodPieceLength, ByteString(Pieces(20)), Absent,
                      List(<<Entry2, Entry1>>)),
               MkInfo(GoodName, GoodPieceLength, ByteString(Pieces(39)), Number(100), Absent)}}
    \cup {Number(1), Empty}

\* A dictionary written with its entries in the order given, sorted or not.
RawDict(pairs) ==
    << Ord("d") >>
    \o Concat([j \in 1..Len(pairs) |-> Encode(ByteString(pairs[j][1])) \o pairs[j][2]])
    \o << Ord("e") >>

Orders(n) == {f \in [1..n -> 1..n] : \A i, j \in 1..n : f[i] = f[j] => i = j}

InfoPairs ==
    << <<K_length, Encode(Number(100))>>, <<K_name, Encode(GoodName)>>,
       <<K_piece_length, Encode(GoodPieceLength)>>, <<K_pieces, Encode(ByteString(Pieces(20)))>> >>

CanonicalBuffer ==
    RawDict(<< <<K_announce, Encode(AnnounceA)>>, <<K_info, RawDict(InfoPairs)>> >>)

Buffers ==
    {RawDict(<< <<K_announce, Encode(a)>>,
                <<K_info, RawDict([j \in 1..4 |-> InfoPairs[o[j]]])>> >>) :
        a \in {AnnounceA, AnnounceB}, o \in Orders(4)}
    \cup {RawDict(<< <<K_info, RawDict([j \in 1..4 |-> InfoPairs[o[j]]])>>,
                     <<K_announce, Encode(AnnounceA)>> >>) : o \in Orders(4)}
    \cup {SubSeq(CanonicalBuffer, 1, n) : n \in 0..(Len(CanonicalBuffer) - 1)}
    \cup {Encode(r) : r \in RootInputs}

IndexInputs ==
    {U64(i) : i \in 0..MaxIndex}
    \cup { << 52428, 52428, 52428, 3276 >>,    \* (2^64 - 1) div 20 = 0x0CCCCCCCCCCCCCCC
           << 0, 0, 0, 16384 >> }              \* 2^62

-----------------------------------------------------------------------------
(* The torrent side as a state machine: a caller that holds at most one    *)
(* result (and, for Torrent::decode, the one before it) and makes the      *)
(* next call.                                                              *)

NoValue == [t |-> "NoValue"]

NoCall == [fn |-> "none"]

NumThreads == 2
Threads == 1..NumThreads
Uninit == [state |-> "uninit", value |-> << >>]

Init ==
    /\ op = "idle"
    /\ input = NoValue
    /\ output = NoValue
    /\ prev = NoValue
    /\ instance = NoValue
    /\ call = NoCall
    /\ now = 0
    /\ in_flight = 0
    /\ session = NoValue
    /\ cell = Uninit
    /\ tpc = [t \in Threads |-> "idle"]
    /\ got = [t \in Threads |-> << >>]

CallFromBytes ==
    /\ op = "idle"
    /\ \E bytes \in Buffers :
          /\ input' = bytes
          /\ output' = from_bytes(bytes)
    /\ op' = "from_bytes"
    /\ prev' = NoValue
    /\ UNCHANGED <<clientVars, peerVars, idVars>>

\* A second Torrent::decode while the first Torrent is still held keeps the
\* first call in prev; the caller holds no more than these two.
CallTorrentDecode ==
    /\ op \in {"idle", "Torrent::decode"}
    /\ prev = NoValue
    /\ \E b \in RootInputs :
          /\ input' = b
          /\ output' = TorrentDecode(b)
    /\ op' = "Torrent::decode"
    /\ prev' = IF op = "Torrent::decode" THEN [input |-> input, output |-> output] ELSE NoValue
    /\ UNCHANGED <<clientVars, peerVars, idVars>>

CallInfoDecode ==
    /\ op = "idle"
    /\ \E b \in InfoInputs :
          /\ input' = b
          /\ output' = InfoDecode(b)
    /\ op' = "Info::decode"
    /\ prev' = NoValue
    /\ UNCHANGED <<clientVars, peerVars, idVars>>

CallPieceHash ==
    /\ op = "Info::decode"
    /\ output.ok
    /\ \E index \in IndexInputs, overflow_checks \in BOOLEAN :
          /\ input' = [self |-> output.val, index |-> index, overflow_checks |-> overflow_checks]
          /\ output' = piece_hash(output.val, index, overflow_checks)
    /\ op' = "piece_hash"
    /\ prev' = NoValue
    /\ UNCHANGED <<clientVars, peerVars, idVars>>

Drop ==
    /\ op # "idle"
    /\ op' = "idle"
    /\ input' = NoValue
    /\ output' = NoValue
    /\ prev' = NoValue
    /\ UNCHANGED <<clientVars, peerVars, idVars>>

NextTorrent ==
    \/ CallFromBytes
    \/ CallTorrentDecode
    \/ CallInfoDecode
    \/ CallPieceHash
    \/ Drop

SpecTorrent == Init /\ [][NextTorrent]_vars

-----------------------------------------------------------------------------
(* Peer::decode from a compact tracker entry, as TrackerResponse::decode   *)
(* calls it (tracker.rs 172).  The version of Peer that decodes six bytes  *)
(* is not among the sources: four address bytes, then the port, big-endian.*)
(* A new session chokes and is not interested, on both sides.              *)

PeerDecode(peer_bytes) ==
    Ok([ip |-> SubSeq(peer_bytes, 1, 4),
        port |-> 256 * peer_bytes[5] + peer_bytes[6],
        peer_id |-> None,
        am_choking |-> TRUE,
        am_interested |-> FALSE,
        peer_choking |-> TRUE,
        peer_interested |-> FALSE,
        bitfield |-> << >>,
        downloading |-> FALSE,
        uploading |-> FALSE,
        available_pieces |-> << >>,
        outstanding_requests |-> << >>])

-----------------------------------------------------------------------------
(* TrackerResponse::decode (tracker.rs 146-178).                           *)

\* peers_bytes.chunks_exact(6): the k-th chunk, counting from 1.
Chunk(peers_bytes, k) == SubSeq(peers_bytes, 6 * (k - 1) + 1, 6 * k)

\* A sequence without the repetitions of its items.
RECURSIVE Dedup(_)
Dedup(xs) ==
    IF xs = << >> THEN << >>
    ELSE << Head(xs) >> \o Dedup(SelectSeq(Tail(xs), LAMBDA x : x # Head(xs)))

\* Variant of PeersOf: a peer that appeared before is left out.
PeersOfDeduplicated(peers_bytes) ==
    Collect(Dedup([k \in 1..(Len(peers_bytes) \div 6) |-> PeerDecode(Chunk(peers_bytes, k))]))

\* chunks_exact(6).map(Peer::decode).collect() (tracker.rs 166-174).
PeersOf(peers_bytes) ==
    Collect([k \in 1..(Len(peers_bytes) \div 6) |-> PeerDecode(Chunk(peers_bytes, k))])

\* The check `peers_bytes.len() % 6 != 0` (tracker.rs 156-164).
PeersLengthCheck(peers_bytes) ==
    IF Len(peers_bytes) % 6 # 0
    THEN Err("Other", <<"Peer data length ", Len(peers_bytes), " is not a multiple of 6.">>)
    ELSE Ok(peers_bytes)

TrackerResponseDecode(b) ==
    Try(get_struct(b), LAMBDA dict :
    Try(get_struct_value(K_interval, dict), LAMBDA iv :
    Try(get_u64(iv), LAMBDA interval :
    Try(get_struct_value(K_peers, dict), LAMBDA pv :
    Try(get_str(pv), LAMBDA bytes :
    Try(PeersLengthCheck(bytes), LAMBDA peers_bytes :
    Try(PeersOf(peers_bytes), LAMBDA peers :
    Ok([interval |-> interval, peers |-> peers]))))))))

-----------------------------------------------------------------------------
(* TrackerRequest::new and url_encode (tracker.rs 33-82).                  *)

is_ascii_alphanumeric(b) ==
    \/ IsDigit(b)
    \/ b >= Ord("A") /\ b <= Ord("Z")
    \/ b >= Ord("a") /\ b <= Ord("z")

\* char::from_digit(d, 16): the digits 0-9, then the lower-case letters a-f.
from_digit(d) == IF d < 10 THEN Ord("0") + d ELSE Ord("a") + (d - 10)

\* Variant of to_ascii_uppercase: the character as it is.
keep_case(c) == c

\* char::to_ascii_uppercase.

to_ascii_uppercase(c) ==
    IF c >= Ord("a") /\ c <= Ord("z") THEN c - (Ord("a") - Ord("A")) ELSE c

\* One turn of the loop of url_encode: what byte b appends to the result.
url_encode_byte(b) ==
    IF is_ascii_alphanumeric(b) \/ b = Ord("-") \/ b = Ord("_") \/ b = Ord(".") \/ b = Ord("~")
    THEN << b >>
    ELSE << Ord("%"),
            to_ascii_uppercase(from_digit(b \div 16)),
            to_ascii_uppercase(from_digit(b % 16)) >>

url_encode(bytes) == Concat([i \in 1..Len(bytes) |-> url_encode_byte(bytes[i])])

TrackerRequestNew(tracker, info_hash, peer_id, port, uploaded, downloaded, left, compact) ==
    Ok([tracker |-> tracker,
        url_info_hash |-> url_encode(info_hash),
        url_peer_id |-> url_encode(peer_id),
        port |-> port,
        uploaded |-> uploaded,
        downloaded |-> downloaded,
        left |-> left,
        compact |-> compact])

-----------------------------------------------------------------------------
(* The http crate, as build_url calls it (tracker.rs 89-95, 133-135):      *)
(* Uri::from_maybe_shared, Uri::into_parts, PathAndQuery::path,            *)
(* PathAndQuery::try_from and Uri::from_parts.                             *)

\* The first position at or after i whose byte is in S, or Len + 1.
Find(bs, i, S) ==
    LET hits == {j \in i..Len(bs) : bs[j] \in S}
    IN  IF hits = {} THEN Len(bs) + 1 ELSE CHOOSE j \in hits : \A k \in hits : j <= k

\* A byte a path or a query may hold: the visible ASCII characters.
UriByte(b) == b > Ord(" ") /\ b <= Ord("~")

\* PathAndQuery::from_shared: the path ends at the first `?`, the query at
\* the first `#`; the fragment is dropped.
PathAndQueryParse(bs) ==
    LET q == Find(bs, 1, {Ord("?"), Ord("#")})
        f == Find(bs, 1, {Ord("#")})
    IN  IF \E i \in 1..(f - 1) : ~UriByte(bs[i])
        THEN Err("InvalidUri", <<"invalid uri character">>)
        ELSE Ok([path |-> SubSeq(bs, 1, q - 1),
                 query |-> IF q < f THEN Some(SubSeq(bs, q + 1, f - 1)) ELSE None])

\* PathAndQuery::path: the path, or "/" for an empty one.
path_of(p) == IF p.path = << >> THEN << Ord("/") >> ELSE p.path

SchemeByte(b) == is_ascii_alphanumeric(b) \/ b \in {Ord("+"), Ord("-"), Ord(".")}

\* The length of the scheme that starts the bytes (what precedes "://"), or 0.
SchemeLen(bs) ==
    LET c == Find(bs, 1, {Ord(":")})
    IN  IF /\ c > 1 /\ c + 2 <= Len(bs)
           /\ bs[c + 1] = Ord("/") /\ bs[c + 2] = Ord("/")
           /\ \A i \in 1..(c - 1) : SchemeByte(bs[i])
        THEN c - 1 ELSE 0

\* Uri::from_shared, then into_parts: a scheme and an authority, each or none,
\* and the path and query, present when there is a scheme or any path.
UriParts(bs) ==
    IF bs = << >> THEN Err("InvalidUri", <<"empty string">>)
    ELSE IF bs[1] = Ord("/")
    THEN Try(PathAndQueryParse(bs), LAMBDA pq :
         Ok([scheme |-> None, authority |-> None, path_and_query |-> Some(pq)]))
    ELSE IF SchemeLen(bs) = 0
    THEN IF Find(bs, 1, {Ord("/"), Ord("?"), Ord("#")}) <= Len(bs)
         THEN Err("InvalidUri", <<"invalid format">>)
         ELSE Ok([scheme |-> None, authority |-> Some(bs), path_and_query |-> None])
    ELSE LET rest == SubSeq(bs, SchemeLen(bs) + 4, Len(bs))
             e == Find(rest, 1, {Ord("/"), Ord("?"), Ord("#")})
         IN  IF e = 1
             THEN Err("InvalidUri", <<"invalid format">>)
             ELSE Try(PathAndQueryParse(SubSeq(rest, e, Len(rest))), LAMBDA pq :
                  Ok([scheme |-> Some(SubSeq(bs, 1, SchemeLen(bs))),
                      authority |-> Some(SubSeq(rest, 1, e - 1)),
                      path_and_query |-> Some(pq)]))

\* Uri::from_parts.
UriFromParts(parts) ==
    IF parts.scheme.t = "Some" /\ parts.authority.t = "None"
    THEN Err("InvalidURIParts", <<"authority missing">>)
    ELSE IF parts.scheme.t = "Some" /\ parts.path_and_query.t = "None"
    THEN Err("InvalidURIParts", <<"path missing">>)
    ELSE IF parts.scheme.t = "None" /\ parts.authority.t = "Some"
            /\ parts.path_and_query.t = "Some"
    THEN Err("InvalidURIParts", <<"scheme missing">>)
    ELSE Ok([scheme |-> parts.scheme,
             authority |-> parts.authority,
             path |-> parts.path_and_query.some.path,
             query |-> parts.path_and_query.some.query])

-----------------------------------------------------------------------------
(* TrackerRequest::build_url (tracker.rs 85-136).                          *)

S_info_hash == B(<<"i", "n", "f", "o", "_", "h", "a", "s", "h", "=">>)
S_peer_id == B(<<"&", "p", "e", "e", "r", "_", "i", "d", "=">>)
S_port == B(<<"&", "p", "o", "r", "t", "=">>)
S_uploaded == B(<<"&", "u", "p", "l", "o", "a", "d", "e", "d", "=">>)
S_downloaded == B(<<"&", "d", "o", "w", "n", "l", "o", "a", "d", "e", "d", "=">>)
S_left == B(<<"&", "l", "e", "f", "t", "=">>)
S_compact == B(<<"&", "c", "o", "m", "p", "a", "c", "t", "=">>)

\* The query delimiter (tracker.rs 104-109): `path` is PathAndQuery::path().
QueryDelimiter(path) ==
    IF \E i \in 1..Len(path) : path[i] = Ord("?") THEN Ord("&") ELSE Ord("?")

\* Variant of PathAndQueryString: uploaded and downloaded change places.
PathAndQueryStringSwapped(self, path) ==
    path \o << QueryDelimiter(path) >>
    \o S_info_hash \o self.url_info_hash
    \o S_peer_id \o self.url_peer_id
    \o S_port \o Dec(self.port)
    \o S_downloaded \o Dec(self.downloaded)
    \o S_uploaded \o Dec(self.uploaded)
    \o S_left \o Dec(self.left)
    \o S_compact \o << IF self.compact THEN Ord("1") ELSE Ord("0") >>

\* The string build_url assembles (tracker.rs 99-131).
PathAndQueryString(self, path) ==
    path \o << QueryDelimiter(path) >>
    \o S_info_hash \o self.url_info_hash
    \o S_peer_id \o self.url_peer_id
    \o S_port \o Dec(self.port)
    \o S_uploaded \o Dec(self.uploaded)
    \o S_downloaded \o Dec(self.downloaded)
    \o S_left \o Dec(self.left)
    \o S_compact \o << IF self.compact THEN Ord("1") ELSE Ord("0") >>

build_url(self) ==
    Try(UriParts(self.tracker), LAMBDA uri_parts :
    Try(PathAndQueryParse(
            PathAndQueryString(self,
                IF uri_parts.path_and_query.t = "Some"
                THEN path_of(uri_parts.path_and_query.some)
                ELSE << Ord("/") >>)), LAMBDA pq :
    UriFromParts([scheme |-> uri_parts.scheme,
                  authority |-> uri_parts.authority,
                  path_and_query |-> Some(pq)])))

-----------------------------------------------------------------------------
(* Inputs of the tracker side.                                             *)

MaxPeers == 2
MaxCounter == 1

Peer1 == <<192, 168, 0, 2, 26, 225>>
Peer2 == <<10, 0, 0, 1, 0, 80>>

\* Peer strings of whole chunks followed by 0 to 5 stray bytes.
PeersBytes ==
    {Concat(l) \o SubSeq(Peer1, 1, r) : l \in SeqsUpTo({Peer1, Peer2}, MaxPeers), r \in 0..5}

IntervalOpts == {Absent, Number(1800), Number(0), Number(-1), ByteString(B(<<"9">>))}
PeersOpts == {Absent, Number(6), List(<< >>)} \cup {ByteString(bs) : bs \in PeersBytes}

ResponseInputs ==
    {MkDict(<< <<K_interval, i>>, <<K_peers, p>> >>) : i \in IntervalOpts, p \in PeersOpts}
    \cup {Number(1), ByteString(Peer1), List(<< >>)}

\* 20-byte values: one byte repeated, and a run of consecutive bytes.
Repeated(b) == [i \in 1..20 |-> b]
Run(c) == [i \in 1..20 |-> (c + i) % 256]
HashInputs == {Repeated(b) : b \in Byte} \cup {Run(c) : c \in Byte}

T_host == B(<<"h", "t", "t", "p", ":", "/", "/", "t", ".", "o", "r", "g">>)
T_announce == B(<<"/", "a", "n", "n", "o", "u", "n", "c", "e">>)
T_query == B(<<"?", "k", "=", "v">>)
T_more == B(<<"&", "x", "=", "1">>)

TrackerUrls ==
    { T_host,
      T_host \o B(<<"/">>),
      T_host \o T_announce,
      T_host \o T_announce \o T_query,
      T_host \o T_announce \o T_query \o T_more,
      T_host \o T_announce \o B(<<"?">>),
      T_host \o T_query,
      T_host \o T_announce \o T_query \o B(<<"#", "f">>),
      B(<<"u", "d", "p", ":", "/", "/", "t", ":", "8", "0">>) \o T_announce,
      T_announce,
      T_announce \o T_query,
      B(<<"t", ".", "o", "r", "g", ":", "8", "0">>),
      B(<<"h", "t", "t", "p", ":", "/", "/">>),
      T_host \o B(<<"/", "a", " ", "b">>),
      << >> }

PeerIdInput == B(<<"-", "M", "S", "0", "1", "0", "0", "-">>) \o [i \in 1..12 |-> 32 + i]
InfoHashInputs == {Repeated(0), Run(40)}
PortInputs == {0, 6881, 65535}
CounterInputs == 0..MaxCounter
LeftInputs == CounterInputs \cup {1234567890}

-----------------------------------------------------------------------------
(* The tracker side as a state machine, over the same variables.           *)

CallTrackerResponseDecode ==
    /\ op = "idle"
    /\ \E b \in ResponseInputs :
          /\ input' = b
          /\ output' = TrackerResponseDecode(b)
    /\ op' = "TrackerResponse::decode"
    /\ prev' = NoValue
    /\ UNCHANGED <<clientVars, peerVars, idVars>>

CallUrlEncode ==
    /\ op = "idle"
    /\ \E bytes \in HashInputs :
          /\ input' = bytes
          /\ output' = url_encode(bytes)
    /\ op' = "url_encode"
    /\ prev' = NoValue
    /\ UNCHANGED <<clientVars, peerVars, idVars>>

CallTrackerRequestNew ==
    /\ op = "idle"
    /\ \E tracker \in TrackerUrls, info_hash \in InfoHashInputs, port \in PortInputs,
          uploaded \in CounterInputs, downloaded \in CounterInputs,
          left \in LeftInputs, compact \in BOOLEAN :
          /\ input' = [tracker |-> tracker, info_hash |-> info_hash, peer_id |-> PeerIdInput]
          /\ output' = TrackerRequestNew(tracker, info_hash, PeerIdInput, port,
                                         uploaded, downloaded, left, compact)
    /\ op' = "TrackerRequest::new"
    /\ prev' = NoValue
    /\ UNCHANGED <<clientVars, peerVars, idVars>>

CallBuildUrl ==
    /\ op = "TrackerRequest::new"
    /\ output.ok
    /\ input' = output.val
    /\ output' = build_url(output.val)
    /\ op' = "build_url"
    /\ prev' = NoValue
    /\ UNCHANGED <<clientVars, peerVars, idVars>>

NextTracker ==
    \/ CallTrackerResponseDecode
    \/ CallUrlEncode
    \/ CallTrackerRequestNew
    \/ CallBuildUrl
    \/ Drop

SpecTracker == Init /\ [][NextTracker]_vars

-----------------------------------------------------------------------------
(* Tracker (tracker.rs 180-260): Tracker::new, send_request and get_peers. *)
(* Both calls are async: a call advances from one await to the next, may   *)
(* fail at each of them, and may be dropped by its caller while it waits.  *)
(* get_peers borrows the Tracker mutably, so one call runs at a time.      *)

MaxTime == 6
TicksPerSec == 2

\* Uri::host: the authority up to the port, when there is an authority.
HostOf(url) ==
    IF url.authority.t = "Some"
    THEN Some(SubSeq(url.authority.some, 1, Find(url.authority.some, 1, {Ord(":")}) - 1))
    ELSE None

\* Variant of NeedsRefresh: a request is made as soon as the interval is reached.
NeedsRefreshAtInterval(self, t) ==
    (t - self.last_request) \div TicksPerSec >= self.response.interval

\* self.last_request.elapsed().as_secs() > self.response.interval (tracker.rs 253):
\* the clock counts ticks, as_secs drops the part of a second.
NeedsRefresh(self, t) ==
    (t - self.last_request) \div TicksPerSec > self.response.interval

\* Tracker::new after send_request returned (tracker.rs 194-204).
NewTracker(response_bencode, t) ==
    Try(TrackerResponseDecode(response_bencode), LAMBDA response :
    Ok([last_request |-> t, response_bencode |-> response_bencode, response |-> response]))

\* get_peers after send_request returned (tracker.rs 254-256): the Tracker it
\* leaves, and what the call returns.
Refreshed(self, response_bencode, t) ==
    LET stored == [self EXCEPT !.response_bencode = response_bencode]
        decoded == TrackerResponseDecode(response_bencode)
    IN  IF decoded.ok
        THEN [self |-> [stored EXCEPT !.response = decoded.val, !.last_request = t],
              ret |-> Ok(decoded.val.peers)]
        ELSE [self |-> stored, ret |-> decoded]

\* Variant of PhaseAfterError: a failed request is made once more.
PhaseAfterErrorRetrying(c) == IF c.attempts < 2 THEN "build_url" ELSE "done"

\* `?` on a failure inside send_request (tracker.rs 192, 209-242, 254): the
\* call returns the error.
PhaseAfterError(c) == "done"

\* Variant of SelfAfterError: the time of the failed request is remembered.
SelfAfterErrorStamped(self, t) ==
    IF self = NoValue THEN self ELSE [self EXCEPT !.last_request = t]

\* The Tracker after send_request failed or the call was dropped: nothing is
\* assigned before send_request returns (tracker.rs 254).
SelfAfterError(self, t) == self

\* Requests and response bodies.
GoodRequest ==
    TrackerRequestNew(T_host \o T_announce, Repeated(0), PeerIdInput, 6881, 0, 0, 1, TRUE).val
HostlessRequest ==
    TrackerRequestNew(T_announce, Repeated(0), PeerIdInput, 6881, 0, 0, 1, TRUE).val
BadUriRequest ==
    TrackerRequestNew(<< >>, Repeated(0), PeerIdInput, 6881, 0, 0, 1, TRUE).val
Requests == {GoodRequest, HostlessRequest, BadUriRequest}

Body(interval, peers) == Encode(MkDict(<< <<K_interval, interval>>, <<K_peers, peers>> >>))

Bodies ==
    { Body(Number(1), ByteString(Peer1)),
      Body(Number(0), ByteString(Peer2 \o Peer1)),
      Body(Absent, ByteString(Peer1)),
      Body(Number(1), ByteString(Peer1 \o <<7>>)),
      B(<<"x">>) }

AwaitPhases == {"connect", "handshake", "send_request", "collect"}

StartCall(fn, req, pc, ret) ==
    [fn |-> fn, pc |-> pc, req |-> req, before |-> instance, start |-> now,
     attempts |-> 0, wire |-> 0, ret |-> ret]

\* A failure inside send_request, returned by `?`.
FailWith(kind, msg) ==
    /\ call' = [call EXCEPT !.pc = PhaseAfterError(call), !.ret = Err(kind, msg)]
    /\ instance' = SelfAfterError(instance, now)
    /\ in_flight' = 0

CallTrackerNew ==
    /\ call = NoCall
    /\ \E req \in Requests : call' = StartCall("Tracker::new", req, "build_url", NoValue)
    /\ UNCHANGED <<instance, now, in_flight, callVars, peerVars, idVars>>

CallGetPeers ==
    /\ call = NoCall
    /\ instance # NoValue
    /\ \E req \in Requests :
          call' = IF NeedsRefresh(instance, now)
                  THEN StartCall("get_peers", req, "build_url", NoValue)
                  ELSE StartCall("get_peers", req, "done", Ok(instance.response.peers))
    /\ UNCHANGED <<instance, now, in_flight, callVars, peerVars, idVars>>

\* send_request up to its first await (tracker.rs 209-217).
BuildUrlStep ==
    /\ call # NoCall
    /\ call.pc = "build_url"
    /\ LET c == [call EXCEPT !.attempts = @ + 1]
           url == build_url(call.req)
       IN  IF ~url.ok
           THEN /\ call' = [c EXCEPT !.pc = PhaseAfterError(c), !.ret = url]
                /\ instance' = SelfAfterError(instance, now)
           ELSE IF HostOf(url.val).t = "None"
           THEN /\ call' = [c EXCEPT !.pc = PhaseAfterError(c),
                                     !.ret = Err("Other", <<"Missing host in tracker URL">>)]
                /\ instance' = SelfAfterError(instance, now)
           ELSE /\ call' = [c EXCEPT !.pc = "connect"]
                /\ instance' = instance
    /\ UNCHANGED <<now, in_flight, callVars, peerVars, idVars>>

\* TcpStream::connect(..).await (tracker.rs 217).
Connect ==
    /\ call # NoCall
    /\ call.pc = "connect"
    /\ \/ /\ call' = [call EXCEPT !.pc = "handshake"]
          /\ UNCHANGED <<instance, in_flight>>
       \/ FailWith("StreamError", <<"connect">>)
    /\ UNCHANGED <<now, callVars, peerVars, idVars>>

\* handshake(io).await, then the request is built and sent (tracker.rs 220-237).
Handshake ==
    /\ call # NoCall
    /\ call.pc = "handshake"
    /\ \/ /\ call' = [call EXCEPT !.pc = "send_request", !.wire = @ + 1]
          /\ in_flight' = in_flight + 1
          /\ instance' = instance
       \/ FailWith("HyperError", <<"handshake">>)
    /\ UNCHANGED <<now, callVars, peerVars, idVars>>

\* sender.send_request(req).await (tracker.rs 237).
Respond ==
    /\ call # NoCall
    /\ call.pc = "send_request"
    /\ \/ /\ call' = [call EXCEPT !.pc = "collect"]
          /\ UNCHANGED <<instance, in_flight>>
       \/ FailWith("HyperError", <<"send_request">>)
    /\ UNCHANGED <<now, callVars, peerVars, idVars>>

\* res.collect().await, from_buffer, and the rest of the caller up to its
\* return (tracker.rs 239-244, then 194-204 or 254-258).
CollectBody ==
    /\ call # NoCall
    /\ call.pc = "collect"
    /\ \/ \E body \in Bodies :
             LET parsed == from_buffer(body)
             IN  IF ~parsed.ok
                 THEN FailWith("StreamingError", <<"syntax">>)
                 ELSE /\ in_flight' = in_flight - 1
                      /\ IF call.fn = "Tracker::new"
                         THEN LET made == NewTracker(parsed.val, now)
                              IN  /\ instance' = IF made.ok THEN made.val ELSE instance
                                  /\ call' = [call EXCEPT !.pc = "done", !.ret = made]
                         ELSE LET r == Refreshed(instance, parsed.val, now)
                              IN  /\ instance' = r.self
                                  /\ call' = [call EXCEPT !.pc = "done", !.ret = r.ret]
       \/ FailWith("HyperError", <<"collect">>)
    /\ UNCHANGED <<now, callVars, peerVars, idVars>>

\* The caller drops the future while it waits.
Cancel ==
    /\ call # NoCall
    /\ call.pc \in AwaitPhases
    /\ call' = [call EXCEPT !.pc = "cancelled"]
    /\ instance' = SelfAfterError(instance, now)
    /\ in_flight' = 0
    /\ UNCHANGED <<now, callVars, peerVars, idVars>>

\* The caller has the result.
Return ==
    /\ call # NoCall
    /\ call.pc \in {"done", "cancelled"}
    /\ call' = NoCall
    /\ UNCHANGED <<instance, now, in_flight, callVars, peerVars, idVars>>

Tick ==
    /\ now < MaxTime
    /\ now' = now + 1
    /\ UNCHANGED <<instance, call, in_flight, callVars, peerVars, idVars>>

NextClient ==
    \/ CallTrackerNew
    \/ CallGetPeers
    \/ BuildUrlStep
    \/ Connect
    \/ Handshake
    \/ Respond
    \/ CollectBody
    \/ Cancel
    \/ Return
    \/ Tick

SpecClient == Init /\ [][NextClient]_vars

-----------------------------------------------------------------------------
(* Peer: Peer::new and the accessors of core/peer.rs, and Peer::decode     *)
(* from a Bencode dictionary of core/peer/peer.rs.  Both structs have the  *)
(* same session fields; last_active, a reading of the clock, is left out.  *)
(* peer_id is held as an Option for both.                                  *)

K_ip == B(<<"i", "p">>)
K_port == B(<<"p", "o", "r", "t">>)
K_peer_id == B(<<"p", "e", "e", "r", "_", "i", "d">>)

\* The fields every constructor sets (peer.rs 25-33, peer/peer.rs 61-69).
NewSession(ip, port, peer_id) ==
    [ip |-> ip,
     port |-> port,
     peer_id |-> peer_id,
     am_choking |-> TRUE,
     am_interested |-> FALSE,
     peer_choking |-> TRUE,
     peer_interested |-> FALSE,
     bitfield |-> << >>,
     downloading |-> FALSE,
     uploading |-> FALSE,
     available_pieces |-> << >>,
     outstanding_requests |-> << >>]

\* Peer::new (peer.rs 20-36).
PeerNew(ip, port, peer_id) == NewSession(ip, port, Some(peer_id))

\* `get_u64(v).map(|p| p as u16)` (peer/peer.rs 47-48, 76-80): the casts
\* `*i as u64` and `p as u16` keep the low 16 bits of the integer.
PortOfInteger(v) ==
    IF v.t = "Number"
    THEN Ok(v.n % 65536)
    ELSE Err("WrongType", <<"Expected an integer">>)

\* Peer::decode of a dictionary (peer/peer.rs 27-72).
PeerDecodeDict(b) ==
    IF b.t # "Dict" THEN Err("WrongType", <<"Expected a dictionary">>)
    ELSE IF K_ip \notin DOMAIN b.map THEN Err("KeyNotFound", <<"ip">>)
    ELSE IF b.map[K_ip].t # "ByteString" THEN Err("WrongType", <<"Expected a string for ip">>)
    ELSE IF K_port \notin DOMAIN b.map THEN Err("KeyNotFound", <<"port">>)
    ELSE Try(PortOfInteger(b.map[K_port]), LAMBDA port :
         Ok(NewSession(b.map[K_ip].bytes, port,
                       IF K_peer_id \in DOMAIN b.map /\ b.map[K_peer_id].t = "ByteString"
                       THEN Some(b.map[K_peer_id].bytes)
                       ELSE None)))

\* set_bitfield (peer.rs 38-41).
set_bitfield(self, bitfield) == [self EXCEPT !.bitfield = bitfield]

RECURSIVE Pow2(_)
Pow2(k) == IF k = 0 THEN 1 ELSE 2 * Pow2(k - 1)

\* Variant of has_piece: the bits of a byte are counted from the lowest.
has_piece_lsb_first(self, piece_index) ==
    IF self.bitfield = << >> THEN FALSE
    ELSE IF piece_index \div 8 >= Len(self.bitfield) THEN FALSE
    ELSE (self.bitfield[(piece_index \div 8) + 1] \div Pow2(piece_index % 8)) % 2 = 1

\* has_piece (peer.rs 43-54).
has_piece(self, piece_index) ==
    IF self.bitfield = << >> THEN FALSE
    ELSE LET byte_index == piece_index \div 8
             bit_index == 7 - (piece_index % 8)
         IN  IF byte_index >= Len(self.bitfield) THEN FALSE
             ELSE (self.bitfield[byte_index + 1] \div Pow2(bit_index)) % 2 = 1

\* Variant of set_am_choking: the peer is taken to choke as well.
set_am_choking_both(self, choking) ==
    [self EXCEPT !.am_choking = choking, !.peer_choking = choking]

\* The setters of the four flags (peer.rs 56-94).
set_am_choking(self, choking) == [self EXCEPT !.am_choking = choking]
set_am_interested(self, interested) == [self EXCEPT !.am_interested = interested]
set_peer_choking(self, choking) == [self EXCEPT !.peer_choking = choking]
set_peer_interested(self, interested) == [self EXCEPT !.peer_interested = interested]

\* The other setters (peer.rs 96-139).  outstanding_requests, a HashMap, is
\* held as the sequence of its <<begin, length>> entries in the order of begin.
update_available_pieces(self, available_pieces) ==
    [self EXCEPT !.available_pieces = available_pieces]
remove_outstanding_request(self, begin) ==
    [self EXCEPT !.outstanding_requests = SelectSeq(@, LAMBDA e : e[1] # begin)]
add_outstanding_request(self, begin, length) ==
    LET rest == remove_outstanding_request(self, begin).outstanding_requests
        before == SelectSeq(rest, LAMBDA e : e[1] < begin)
        after == SelectSeq(rest, LAMBDA e : e[1] > begin)
    IN  [self EXCEPT !.outstanding_requests = before \o << <<begin, length>> >> \o after]
set_downloading(self, downloading) == [self EXCEPT !.downloading = downloading]
set_uploading(self, uploading) == [self EXCEPT !.uploading = uploading]

\* Inputs of the peer side.
MaxBitfieldLen == 2
IpInput == <<10, 0, 0, 1>>
PeerDict(ip, port, id) == MkDict(<< <<K_ip, ip>>, <<K_port, port>>, <<K_peer_id, id>> >>)
PeerDictInputs ==
    { PeerDict(ByteString(IpInput), Number(6881), ByteString(PeerIdInput)),
      PeerDict(ByteString(IpInput), Number(-1), Number(0)),
      PeerDict(Absent, Number(6881), Absent),
      PeerDict(Number(1), Number(6881), Absent),
      PeerDict(ByteString(IpInput), Absent, Absent),
      PeerDict(ByteString(IpInput), ByteString(B(<<"8", "0">>)), Absent),
      Number(1) }
\* Bitfields of the bytes 00000001 and 10000000 in turn.
BitfieldInputs ==
    {bf \in SeqsUpTo({1, 128}, MaxBitfieldLen) : \A i \in 2..Len(bf) : bf[i - 1] # bf[i]}
PieceIndexInputs ==
    {0, 7, 8, 8 * MaxBitfieldLen - 1, 8 * MaxBitfieldLen, 2147483647}
PiecesInputs == {<< >>, <<2, 0>>}

\* A call on the session: the session it found is kept in prev.
Called(name, arg, result, self) ==
    /\ op' = name
    /\ input' = arg
    /\ output' = result
    /\ prev' = session
    /\ session' = self
    /\ UNCHANGED <<clientVars, idVars>>

CallPeerNew ==
    /\ session = NoValue
    /\ Called("Peer::new", [ip |-> IpInput, port |-> 6881, peer_id |-> PeerIdInput],
              Ok(PeerNew(IpInput, 6881, PeerIdInput)), PeerNew(IpInput, 6881, PeerIdInput))

CallPeerDecode ==
    /\ session = NoValue
    /\ \E b \in PeerDictInputs :
          Called("Peer::decode", b, PeerDecodeDict(b),
                 IF PeerDecodeDict(b).ok THEN PeerDecodeDict(b).val ELSE NoValue)

CallSetBitfield ==
    /\ session # NoValue
    /\ \E bitfield \in BitfieldInputs :
          Called("set_bitfield", bitfield, NoValue, set_bitfield(session, bitfield))

CallHasPiece ==
    /\ session # NoValue
    /\ \E piece_index \in PieceIndexInputs :
          Called("has_piece", piece_index, has_piece(session, piece_index), session)

CallSetAmChoking ==
    /\ session # NoValue
    /\ \E choking \in BOOLEAN :
          Called("set_am_choking", choking, NoValue, set_am_choking(session, choking))

CallSetAmInterested ==
    /\ session # NoValue
    /\ \E interested \in BOOLEAN :
          Called("set_am_interested", interested, NoValue, set_am_interested(session, interested))

CallSetPeerChoking ==
    /\ session # NoValue
    /\ \E choking \in BOOLEAN :
          Called("set_peer_choking", choking, NoValue, set_peer_choking(session, choking))

CallSetPeerInterested ==
    /\ session # NoValue
    /\ \E interested \in BOOLEAN :
          Called("set_peer_interested", interested, NoValue,
                 set_peer_interested(session, interested))

CallUpdateAvailablePieces ==
    /\ session # NoValue
    /\ \E available_pieces \in PiecesInputs :
          Called("update_available_pieces", available_pieces, NoValue,
                 update_available_pieces(session, available_pieces))

CallAddOutstandingRequest ==
    /\ session # NoValue
    /\ Called("add_outstanding_request", <<0, 16384>>, NoValue,
              add_outstanding_request(session, 0, 16384))

CallRemoveOutstandingRequest ==
    /\ session # NoValue
    /\ Called("remove_outstanding_request", 0, NoValue, remove_outstanding_request(session, 0))

CallSetDownloading ==
    /\ session # NoValue
    /\ \E downloading \in BOOLEAN :
          Called("set_downloading", downloading, NoValue, set_downloading(session, downloading))

CallSetUploading ==
    /\ session # NoValue
    /\ \E uploading \in BOOLEAN :
          Called("set_uploading", uploading, NoValue, set_uploading(session, uploading))

NextPeer ==
    \/ CallPeerNew
    \/ CallPeerDecode
    \/ CallSetBitfield
    \/ CallHasPiece
    \/ CallSetAmChoking
    \/ CallSetAmInterested
    \/ CallSetPeerChoking
    \/ CallSetPeerInterested
    \/ CallUpdateAvailablePieces
    \/ CallAddOutstandingRequest
    \/ CallRemoveOutstandingRequest
    \/ CallSetDownloading
    \/ CallSetUploading

SpecPeer == Init /\ [][NextPeer]_vars

-----------------------------------------------------------------------------
(* The typed extraction called on its own, next to the decoders that use   *)
(* it.  An i64 is an integer of the model; the largest one at hand stands  *)
(* for the ends of its range.                                              *)

NumberInputs == {-2147483647, -1, 0, 1, 2147483647}
ValueInputs ==
    {Number(n) : n \in NumberInputs}
    \cup {ByteString(B(<<"1">>)), List(<< >>), MkDict(<< >>), Empty}
KeyInputs == {K_length, K_piece_length, K_interval}
MapInputs ==
    {MkDict(<< <<K_length, l>>, <<K_interval, i>> >>).map :
        l \in {Absent, Number(-1)}, i \in {Absent, Number(5)}}

CallGetU64 ==
    /\ op = "idle"
    /\ \E b \in ValueInputs :
          /\ input' = b
          /\ output' = get_u64(b)
    /\ op' = "get_u64"
    /\ prev' = NoValue
    /\ UNCHANGED <<clientVars, peerVars, idVars>>

CallGetStructValue ==
    /\ op = "idle"
    /\ \E key \in KeyInputs, dict_map \in MapInputs :
          /\ input' = [key |-> key, dict_map |-> dict_map]
          /\ output' = get_struct_value(key, dict_map)
    /\ op' = "get_struct_value"
    /\ prev' = NoValue
    /\ UNCHANGED <<clientVars, peerVars, idVars>>

NextExtract ==
    \/ CallGetU64
    \/ CallGetStructValue
    \/ CallInfoDecode
    \/ CallTrackerResponseDecode
    \/ Drop

SpecExtract == Init /\ [][NextExtract]_vars

-----------------------------------------------------------------------------
(* PEER_ID and get_peer_id (peer_id.rs 5-36).  PEER_ID is a                *)
(* once_cell::sync::Lazy: the first thread to force it runs the closure,   *)
(* a thread that forces it meanwhile waits, and later ones read the value. *)

MaxCalls == 3
LowByte == 33
HighByte == 126

\* rng.random_range(33..=126) for each of the 12 bytes: the draws of one run
\* of the closure, one run for each seed.
SeedInputs == {0, 1, HighByte - LowByte}
RandomByte(seed, i) == LowByte + ((seed * i) % (HighByte - LowByte + 1))

\* The closure of PEER_ID (peer_id.rs 5-31).
GeneratePeerId(seed) ==
    B(<<"-", "M", "S", "0", "1", "0", "0", "-">>) \o [i \in 1..12 |-> RandomByte(seed, i)]

\* Variant of CanInitialize: a thread runs the closure whenever no value is stored yet.
CanInitializeUnlessComplete(c) == c.state # "complete"

\* The closure is run by the thread that finds the cell untouched.
CanInitialize(c) == c.state = "uninit"

Returned(t, path) ==
    /\ got' = [got EXCEPT ![t] = Append(@, [value |-> cell'.value, path |-> path])]
    /\ tpc' = [tpc EXCEPT ![t] = "idle"]

\* get_peer_id: &PEER_ID, which reads the value if there is one.
CallGetPeerId ==
    \E t \in Threads :
        /\ tpc[t] = "idle"
        /\ Len(got[t]) < MaxCalls
        /\ IF cell.state = "complete"
           THEN cell' = cell /\ Returned(t, "read")
           ELSE cell' = cell /\ tpc' = [tpc EXCEPT ![t] = "forcing"] /\ got' = got
        /\ UNCHANGED <<callVars, clientVars, peerVars>>

\* The thread takes the initialization on itself.
BeginInit ==
    \E t \in Threads :
        /\ tpc[t] = "forcing"
        /\ CanInitialize(cell)
        /\ cell' = [cell EXCEPT !.state = "running"]
        /\ tpc' = [tpc EXCEPT ![t] = "init"]
        /\ UNCHANGED <<got, callVars, clientVars, peerVars>>

\* The closure runs, its value is stored, and the call returns it.
RunInit ==
    \E t \in Threads, seed \in SeedInputs :
        /\ tpc[t] = "init"
        /\ cell' = [state |-> "complete", value |-> GeneratePeerId(seed)]
        /\ Returned(t, "init")
        /\ UNCHANGED <<callVars, clientVars, peerVars>>

\* A thread that waited for the initialization reads the value.
FinishWait ==
    \E t \in Threads :
        /\ tpc[t] = "forcing"
        /\ cell.state = "complete"
        /\ cell' = cell
        /\ Returned(t, "waited")
        /\ UNCHANGED <<callVars, clientVars, peerVars>>

NextPeerId ==
    \/ CallGetPeerId
    \/ BeginInit
    \/ RunInit
    \/ FinishWait

SpecPeerId == Init /\ [][NextPeerId]_vars

-----------------------------------------------------------------------------
(* Properties of the torrent side.                                         *)

HasKey(d, k) == k \in DOMAIN d
IsNat(b) == b.t = "Number" /\ b.n >= 0

\* An info dictionary whose name, piece length and pieces Info::decode accepts.
ValidBasics(b) ==
    /\ b.t = "Dict"
    /\ HasKey(b.map, K_name) /\ b.map[K_name].t = "ByteString"
    /\ HasKey(b.map, K_piece_length) /\ IsNat(b.map[K_piece_length])
    /\ HasKey(b.map, K_pieces) /\ b.map[K_pieces].t = "ByteString"
    /\ Len(b.map[K_pieces].bytes) % 20 = 0

ValidEntry(it) ==
    /\ it.t = "Dict"
    /\ HasKey(it.map, LENGTH_KEY) /\ IsNat(it.map[LENGTH_KEY])
    /\ HasKey(it.map, PATH_KEY) /\ it.map[PATH_KEY].t = "List"
    /\ \A j \in 1..Len(it.map[PATH_KEY].items) : it.map[PATH_KEY].items[j].t = "ByteString"

ExpectedEntry(it) ==
    [length |-> it.map[LENGTH_KEY].n,
     path |-> [j \in 1..Len(it.map[PATH_KEY].items) |-> it.map[PATH_KEY].items[j].bytes]]

ValidFiles(b) ==
    /\ HasKey(b.map, K_files) /\ b.map[K_files].t = "List"
    /\ \A j \in 1..Len(b.map[K_files].items) : ValidEntry(b.map[K_files].items[j])

BothDecoded ==
    /\ op = "Torrent::decode" /\ prev # NoValue
    /\ output.ok /\ prev.output.ok

\* C1: info_hash is a function of the value at key "info" alone: two
\* Torrent::decode calls whose roots hold equal "info" values (the same root
\* decoded twice, or roots that differ in "announce") yield the same 20-byte
\* info_hash.
C1_InfoHashOfInfoOnly ==
    (BothDecoded /\ input.map[K_info] = prev.input.map[K_info])
        => /\ output.val.info_hash = prev.output.val.info_hash
           /\ Len(output.val.info_hash) = 20

C1_Witness ==
    /\ BothDecoded
    /\ input.map[K_info] = prev.input.map[K_info]
    /\ output.val.announce # prev.output.val.announce

\* The bytes of the buffer that hold the value of the root's "info" entry.
OriginalInfoSpan(buf) ==
    LET es == ParseValue(buf, 1).ents
        j == CHOOSE i \in 1..Len(es) :
                es[i].key = K_info /\ \A h \in (i + 1)..Len(es) : es[h].key # K_info
    IN  SubSeq(buf, es[j].from, es[j].to - 1)

\* C2: for every buffer TorrentFile::from_bytes accepts, the info_hash is the
\* digest of the bytes of the info sub-tree as they stand in the buffer.
C2_HashOfOriginalBytes ==
    (op = "from_bytes" /\ output.ok)
        => output.val.torrent.info_hash = Sha1(OriginalInfoSpan(input))

\* C3: with a valid name, piece length and pieces, a "length" key holding a
\* non-negative integer gives SingleFile with that length whether or not
\* "files" is there too, and a dictionary with neither key is an error.
C3_LayoutDispatch ==
    (op = "Info::decode" /\ ValidBasics(input))
        => /\ (HasKey(input.map, K_length) /\ IsNat(input.map[K_length]))
                => /\ output.ok
                   /\ output.val.file_details = SingleFile(input.map[K_length].n)
           /\ (~HasKey(input.map, K_length) /\ ~HasKey(input.map, K_files))
                => ~output.ok

C3_Witness ==
    /\ op = "Info::decode" /\ ValidBasics(input)
    /\ HasKey(input.map, K_length) /\ IsNat(input.map[K_length])
    /\ ValidFiles(input)
    /\ output.ok /\ output.val.file_details.t = "SingleFile"

\* C4 as stated: a "length" that is present but no valid integer, next to a
\* valid "files" list, decodes as MultiFile built from "files".
C4_FilesProbedOnWrongType ==
    (/\ op = "Info::decode" /\ ValidBasics(input)
     /\ HasKey(input.map, K_length) /\ ~IsNat(input.map[K_length])
     /\ ValidFiles(input))
        => /\ output.ok
           /\ output.val.file_details.t = "MultiFile"

\* C4 as amended: "files" is probed when, and only when, "length" is absent.
\* A "length" that is present but no valid integer fails the decode with
\* WrongType whatever "files" holds; with "length" absent a valid "files"
\* list gives MultiFile.
C4_FilesProbedOnlyWhenLengthAbsent ==
    (op = "Info::decode" /\ ValidBasics(input))
        => /\ (HasKey(input.map, K_length) /\ ~IsNat(input.map[K_length]))
                => IsErr(output, "WrongType")
           /\ (~HasKey(input.map, K_length) /\ ValidFiles(input))
                => output.ok /\ output.val.file_details.t = "MultiFile"

C4_Witness ==
    /\ op = "Info::decode" /\ ValidBasics(input)
    /\ HasKey(input.map, K_length) /\ ~IsNat(input.map[K_length])
    /\ ValidFiles(input)
    /\ IsErr(output, "WrongType")

\* C5: without "length", a "files" list of n valid entries gives MultiFile
\* with n entries in the order of the list, each with its own length and its
\* path components in their order; one entry that fails fails the decode.
C5_MultiFileInOrder ==
    (/\ op = "Info::decode" /\ ValidBasics(input)
     /\ ~HasKey(input.map, K_length)
     /\ HasKey(input.map, K_files) /\ input.map[K_files].t = "List")
        => IF ValidFiles(input)
           THEN /\ output.ok
                /\ output.val.file_details =
                      MultiFile([j \in 1..Len(input.map[K_files].items) |->
                                    ExpectedEntry(input.map[K_files].items[j])])
           ELSE ~output.ok

C5_Witness ==
    /\ op = "Info::decode" /\ ValidBasics(input)
    /\ ~HasKey(input.map, K_length) /\ ValidFiles(input)
    /\ Len(input.map[K_files].items) >= 2
    /\ input.map[K_files].items[1] # input.map[K_files].items[2]
    /\ output.ok
    /\ Len(output.val.file_details.files) = Len(input.map[K_files].items)

\* C6: a "pieces" string whose length is no multiple of 20 is rejected with
\* LogicError; on success the pieces are kept whole, and piece_hash(i) is
\* bytes [20i, 20i + 20) for i < len / 20 and None for every i >= len / 20.
C6_PiecesWholeOrRejected ==
    /\ (/\ op = "Info::decode" /\ input.t = "Dict"
        /\ HasKey(input.map, K_name) /\ input.map[K_name].t = "ByteString"
        /\ HasKey(input.map, K_piece_length) /\ IsNat(input.map[K_piece_length])
        /\ HasKey(input.map, K_pieces) /\ input.map[K_pieces].t = "ByteString")
          => IF Len(input.map[K_pieces].bytes) % 20 # 0
             THEN IsErr(output, "LogicError")
             ELSE output.ok => output.val.raw_pieces = input.map[K_pieces].bytes
    /\ op = "piece_hash"
          => LET n == Len(input.self.raw_pieces) \div 20
                 i == input.index
             IN  IF Small(i) /\ WordNat(i) < n
                 THEN output = Some(SubSeq(input.self.raw_pieces,
                                           20 * WordNat(i) + 1, 20 * WordNat(i) + 20))
                 ELSE output = None

\* C7: every Info that Info::decode returns has piece_length > 0.
C7_PieceLengthPositive ==
    (op = "Info::decode" /\ output.ok) => output.val.piece_length > 0
-----------------------------------------------------------------------------
(* Properties of the tracker side.                                         *)

ValidInterval(b) ==
    /\ b.t = "Dict"
    /\ HasKey(b.map, K_interval)
    /\ IsNat(b.map[K_interval])

PeersGiven(b) ==
    /\ ValidInterval(b)
    /\ HasKey(b.map, K_peers)
    /\ b.map[K_peers].t = "ByteString"

\* C8: TrackerResponse::decode, given a dict with a valid interval, rejects a
\* peers string whose length n is not a multiple of 6 with a structural error
\* (kind Other) that names n, and otherwise yields exactly n / 6 peers, the
\* k-th built from the k-th six bytes (four address bytes, then the port,
\* big-endian), in input order and with duplicates kept.
C8_PeersChunkedInOrder ==
    (op = "TrackerResponse::decode" /\ PeersGiven(input)) =>
        LET bs == input.map[K_peers].bytes
            n == Len(bs)
        IN  IF n % 6 # 0
            THEN /\ IsErr(output, "Other")
                 /\ output.err.msg[2] = n
            ELSE /\ output.ok
                 /\ output.val.interval = input.map[K_interval].n
                 /\ Len(output.val.peers) = n \div 6
                 /\ \A k \in 1..(n \div 6) :
                       /\ output.val.peers[k].ip = [j \in 1..4 |-> bs[6 * (k - 1) + j]]
                       /\ output.val.peers[k].port = 256 * bs[6 * k - 1] + bs[6 * k]

\* Two equal chunks in a row are decoded to two equal peers.
C8_Witness ==
    /\ op = "TrackerResponse::decode"
    /\ PeersGiven(input)
    /\ input.map[K_peers].bytes = Peer2 \o Peer2
    /\ output.ok
    /\ Len(output.val.peers) = 2
    /\ output.val.peers[1] = output.val.peers[2]

Unreserved ==
    {Ord(c) : c \in {"-", "_", ".", "~"}}
    \cup (Ord("0")..Ord("9")) \cup (Ord("A")..Ord("Z")) \cup (Ord("a")..Ord("z"))

HexUpper == B(<<"0", "1", "2", "3", "4", "5", "6", "7", "8", "9", "A", "B", "C", "D", "E", "F">>)

Escaped(b) ==
    IF b \in Unreserved THEN << b >>
    ELSE << Ord("%"), HexUpper[(b \div 16) + 1], HexUpper[(b % 16) + 1] >>

\* C9: url_encode maps each of the 20 bytes on its own and in order: a letter,
\* a digit, or one of - _ . ~ stays as it is, every other byte b becomes % and
\* the two upper-case hexadecimal digits of b, high nibble first; 20 zero bytes
\* give %00 twenty times, and the result is 20 to 60 characters long.
C9_UrlEncode ==
    op = "url_encode" =>
        /\ output = Concat([i \in 1..20 |-> Escaped(input[i])])
        /\ Len(output) >= 20 /\ Len(output) <= 60
        /\ (input = [i \in 1..20 |-> 0] =>
               output = Concat([i \in 1..20 |-> B(<<"%", "0", "0">>)]))

\* A value with a byte that passes and a byte whose escape has a hex letter.
C9_Witness ==
    /\ op = "url_encode"
    /\ \E i \in 1..20 : input[i] \in Unreserved
    /\ \E j \in 1..20 : input[j] \notin Unreserved /\ input[j] % 16 >= 10
    /\ Len(output) > 20 /\ Len(output) < 60

\* The announce parameters of a request, in the order build_url writes them.
AnnounceParams(self) ==
    S_info_hash \o self.url_info_hash
    \o S_peer_id \o self.url_peer_id
    \o S_port \o Dec(self.port)
    \o S_uploaded \o Dec(self.uploaded)
    \o S_downloaded \o Dec(self.downloaded)
    \o S_left \o Dec(self.left)
    \o S_compact \o << IF self.compact THEN Ord("1") ELSE Ord("0") >>

\* The query component of a URL: what lies between the first ? and the
\* fragment, if there is a ?.
QueryOf(url) ==
    LET f == Find(url, 1, {Ord("#")})
        q == Find(url, 1, {Ord("?")})
    IN  IF q < f THEN Some(SubSeq(url, q + 1, f - 1)) ELSE None

\* C10: build_url keeps the query component of the tracker URL and joins the
\* announce parameters to it with &; a tracker URL without a query gets the
\* parameters joined to its path with ?.
C10_QueryKept ==
    (op = "build_url" /\ output.ok) =>
        output.val.query =
            IF QueryOf(input.tracker).t = "Some"
            THEN Some(QueryOf(input.tracker).some \o << Ord("&") >> \o AnnounceParams(input))
            ELSE Some(AnnounceParams(input))

\* The pieces of a byte string between the occurrences of a separator.
SplitOn(bs, sep) ==
    LET cuts == {j \in 1..Len(bs) : bs[j] = sep}
        ends == cuts \cup {Len(bs) + 1}
        StartOf(e) == IF \E c \in cuts : c < e
                      THEN (CHOOSE c \in cuts : c < e /\ \A d \in cuts : d < e => d <= c) + 1
                      ELSE 1
        Nth(k) == CHOOSE e \in ends : Cardinality({d \in ends : d < e}) = k - 1
    IN  [k \in 1..Cardinality(ends) |-> SubSeq(bs, StartOf(Nth(k)), Nth(k) - 1)]

\* The <<key, value>> pairs of a query string.
QueryPairs(q) ==
    LET parts == SplitOn(q, Ord("&"))
    IN  [k \in 1..Len(parts) |->
            << SubSeq(parts[k], 1, Find(parts[k], 1, {Ord("=")}) - 1),
               SubSeq(parts[k], Find(parts[k], 1, {Ord("=")}) + 1, Len(parts[k])) >>]

AnnounceKeys ==
    << B(<<"i", "n", "f", "o", "_", "h", "a", "s", "h">>),
       B(<<"p", "e", "e", "r", "_", "i", "d">>),
       B(<<"p", "o", "r", "t">>),
       B(<<"u", "p", "l", "o", "a", "d", "e", "d">>),
       B(<<"d", "o", "w", "n", "l", "o", "a", "d", "e", "d">>),
       B(<<"l", "e", "f", "t">>),
       B(<<"c", "o", "m", "p", "a", "c", "t">>) >>

\* The scheme and the authority written in a URL: what precedes "://", and
\* what follows it up to the first of / ? #.
SchemeOf(url) ==
    LET c == Find(url, 1, {Ord(":")})
    IN  IF c + 2 <= Len(url) /\ url[c + 1] = Ord("/") /\ url[c + 2] = Ord("/")
        THEN Some(SubSeq(url, 1, c - 1)) ELSE None

AuthorityOf(url) ==
    LET c == Find(url, 1, {Ord(":")})
    IN  IF SchemeOf(url).t = "Some"
        THEN Some(SubSeq(url, c + 3, Find(url, c + 3, {Ord("/"), Ord("?"), Ord("#")}) - 1))
        ELSE None

\* C11: every URL build_url returns carries the announce parameters once each
\* and in the order info_hash, peer_id, port, uploaded, downloaded, left,
\* compact; port, uploaded, downloaded and left are the decimal numbers of the
\* request, compact is 1 for true and 0 for false; the scheme and the authority
\* are those of the tracker URL.
C11_AnnounceParamsInOrder ==
    (op = "build_url" /\ output.ok) =>
        /\ output.val.query.t = "Some"
        /\ SelectSeq(QueryPairs(output.val.query.some),
                     LAMBDA kv : \E k \in 1..7 : kv[1] = AnnounceKeys[k])
           = << <<AnnounceKeys[1], input.url_info_hash>>,
                <<AnnounceKeys[2], input.url_peer_id>>,
                <<AnnounceKeys[3], Dec(input.port)>>,
                <<AnnounceKeys[4], Dec(input.uploaded)>>,
                <<AnnounceKeys[5], Dec(input.downloaded)>>,
                <<AnnounceKeys[6], Dec(input.left)>>,
                <<AnnounceKeys[7], IF input.compact THEN B(<<"1">>) ELSE B(<<"0">>)>> >>
        /\ output.val.scheme = SchemeOf(input.tracker)
        /\ output.val.authority = AuthorityOf(input.tracker)

\* A URL built for a request with distinct counters, a port of several digits
\* and compact set, on a tracker URL with a scheme.
C11_Witness ==
    /\ op = "build_url"
    /\ output.ok
    /\ input.compact
    /\ input.port = 6881
    /\ input.uploaded # input.downloaded
    /\ input.left = 1234567890
    /\ output.val.scheme.t = "Some"

-----------------------------------------------------------------------------
(* Properties of Tracker.                                                  *)

\* The time between the last request and the start of the running call
\* exceeds the remembered interval (a number of seconds).
IntervalPassed(c) ==
    c.start - c.before.last_request > c.before.response.interval * TicksPerSec

\* C12: get_peers sends a request only if the time since last_request exceeds
\* the remembered interval; otherwise the call sends nothing, leaves
\* last_request, the stored response and the interval as they were, and
\* returns the stored peer list.
C12_IntervalGating ==
    (call # NoCall /\ call.fn = "get_peers") =>
        /\ (call.pc # "done" \/ call.attempts > 0) => IntervalPassed(call)
        /\ ~IntervalPassed(call) =>
              /\ call.pc = "done"
              /\ call.attempts = 0 /\ call.wire = 0 /\ in_flight = 0
              /\ instance = call.before
              /\ call.ret = Ok(call.before.response.peers)

\* A call made exactly when the interval of one second is reached.
C12_Witness ==
    /\ call # NoCall
    /\ call.fn = "get_peers"
    /\ call.before.response.interval = 1
    /\ call.start - call.before.last_request = TicksPerSec
    /\ call.pc = "done"
    /\ call.ret = Ok(instance.response.peers)

\* The call ended by a failure inside send_request.
FailedInSendRequest(c) ==
    /\ c.pc = "done"
    /\ c.ret # NoValue
    /\ ~c.ret.ok
    /\ \/ c.ret.err.kind \in {"InvalidUri", "InvalidURIParts", "StreamError",
                              "HyperError", "StreamingError"}
       \/ c.ret.err.kind = "Other" /\ Len(c.ret.err.msg) = 1

\* C13: when the request of a get_peers refresh is cancelled or fails inside
\* send_request, the Tracker is as it was before the call: last_request, the
\* stored response bencode, the interval and the peer list.
C13_UntouchedOnFailure ==
    (call # NoCall /\ call.fn = "get_peers"
        /\ (call.pc = "cancelled" \/ FailedInSendRequest(call))) =>
        /\ instance.last_request = call.before.last_request
        /\ instance.response_bencode = call.before.response_bencode
        /\ instance.response.interval = call.before.response.interval
        /\ instance.response.peers = call.before.response.peers

\* A refresh dropped while its request was on the wire, some time after the
\* last request.
C13_Witness ==
    /\ call # NoCall
    /\ call.fn = "get_peers"
    /\ call.pc = "cancelled"
    /\ call.wire = 1
    /\ now > call.start
    /\ instance = call.before

C18_ResponseMatchesBencode ==
    instance # NoValue =>
        /\ TrackerResponseDecode(instance.response_bencode).ok
        /\ TrackerResponseDecode(instance.response_bencode).val = instance.response

-----------------------------------------------------------------------------
(* Properties of Peer.                                                     *)

Flags == {"am_choking", "am_interested", "peer_choking", "peer_interested"}

SetterOf(flag) == "set_" \o flag

\* The state every new session starts in.
StartsFresh(self) ==
    /\ self.am_choking /\ self.peer_choking
    /\ ~self.am_interested /\ ~self.peer_interested
    /\ self.bitfield = << >>
    /\ self.available_pieces = << >>
    /\ self.outstanding_requests = << >>

\* C15: a session built by Peer::new or decoded by Peer::decode starts choking
\* and not interested on both sides, with an empty bitfield, no available
\* pieces and no outstanding requests; afterwards a flag changes only in a call
\* of its own setter, which leaves the other three flags as they were.
C15_SessionDefaults ==
    /\ (op \in {"Peer::new", "Peer::decode"} /\ output.ok) =>
          /\ session = output.val
          /\ StartsFresh(session)
    /\ \A chunk \in {Peer1, Peer2} : StartsFresh(PeerDecode(chunk).val)
    /\ (session # NoValue /\ prev # NoValue) =>
          \A flag \in Flags : session[flag] # prev[flag] => op = SetterOf(flag)

\* The peer stopped choking: one flag differs from the start, three do not.
C15_Witness ==
    /\ op = "set_peer_choking"
    /\ prev # NoValue
    /\ prev.peer_choking
    /\ ~session.peer_choking
    /\ session.am_choking /\ ~session.am_interested /\ ~session.peer_interested

\* Bit k of a byte, counted from the most significant one (k = 0).
BitMsbFirst(byte, k) == (byte \div Pow2(7 - k)) % 2

\* C19: has_piece(i) is true exactly when i < 8 * len(bitfield) and bit
\* 7 - i mod 8 of byte i div 8 is 1: false for an empty bitfield and for every
\* index from 8 * len on; set_bitfield replaces the whole bitfield.
C19_HasPieceMsbFirst ==
    /\ op = "has_piece" =>
          output = IF input < 8 * Len(session.bitfield)
                   THEN BitMsbFirst(session.bitfield[(input \div 8) + 1], input % 8) = 1
                   ELSE FALSE
    /\ op = "set_bitfield" => session.bitfield = input

\* Piece 8 is the first bit of the second byte, after a longer or a shorter
\* bitfield was replaced.
C19_Witness ==
    /\ op = "has_piece"
    /\ input = 8
    /\ output = TRUE
    /\ session.bitfield = <<1, 128>>

-----------------------------------------------------------------------------
(* Properties of the typed extraction.                                     *)

IsNegative(d, k) == HasKey(d, k) /\ d[k].t = "Number" /\ d[k].n < 0

-----------------------------------------------------------------------------
(* Properties of the peer id.                                              *)

Returns == UNION {{got[t][i].value : i \in 1..Len(got[t])} : t \in Threads}

=============================================================================
